---- MODULE Spec2Model ----
(***************************************************************************)
(* Model of src/utils/colorByteCodeUtils.ts: the colour byte code that is  *)
(* printed under an image.  A base64 text is turned into one colour block  *)
(* per character (4 levels per channel, 64 colours), framed with a header  *)
(* and a footer, drawn bottom-up on a canvas and read back by sampling the *)
(* centre of every block.                                                  *)
(*                                                                         *)
(* Numbers: JavaScript doubles are modelled by integers.  255 / 3 is the   *)
(* exact double 85, every product and difference used here is an exact     *)
(* integer, so no rounding is lost.  NaN is a value of its own.            *)
(***************************************************************************)
EXTENDS Integers, Sequences, FiniteSets, TLC

(* ------------------------------------------------------------------ *)
(* JavaScript primitives used by the source                           *)
(* ------------------------------------------------------------------ *)

\* The channel value read outside the pixel buffer: data[index] is
\* undefined there and every arithmetic on it gives NaN.
NaN == -1

Abs(x) == IF x < 0 THEN -x ELSE x

\* a % b of JavaScript for b > 0: the sign follows the dividend.
JsMod(a, b) == IF a >= 0 THEN a % b ELSE -((-a) % b)

\* Math.floor(a / b) for b > 0.
FloorDiv(a, b) == a \div b

\* Math.ceil(a / b) for a >= 0, b > 0.
CeilDiv(a, b) == (a + b - 1) \div b

Min(a, b) == IF a < b THEN a ELSE b
Max(a, b) == IF a > b THEN a ELSE b

\* Array.prototype.slice / String.prototype.slice(start, end): negative
\* indices count from the end, both ends are clamped, 0-based, end excluded.
SliceIndex(k, n) == IF k < 0 THEN Max(n + k, 0) ELSE Min(k, n)
Slice(s, start, end) ==
    LET n == Len(s)
        a == SliceIndex(start, n)
        b == SliceIndex(end, n)
    IN  IF a < b THEN SubSeq(s, a + 1, b) ELSE <<>>
\* slice(start) with the end left out.
SliceFrom(s, start) == Slice(s, start, Len(s))

(* ------------------------------------------------------------------ *)
(* Constants of the source                                            *)
(* ------------------------------------------------------------------ *)

R_CHANNEL_PARTITION == 4
G_CHANNEL_PARTITION == 4
B_CHANNEL_PARTITION == 4

\* The default of getNearIndex's third parameter.
DEFAULT_MAX == 255

BASE64_TABLE ==
    << "A","B","C","D","E","F","G","H","I","J","K","L","M",
       "N","O","P","Q","R","S","T","U","V","W","X","Y","Z",
       "a","b","c","d","e","f","g","h","i","j","k","l","m",
       "n","o","p","q","r","s","t","u","v","w","x","y","z",
       "0","1","2","3","4","5","6","7","8","9","+","/","=" >>

(* ------------------------------------------------------------------ *)
(* Characters, numbers and colours                                    *)
(* ------------------------------------------------------------------ *)

\* Array.prototype.findIndex from index i on: the first 0-based index whose
\* entry is x, -1 when the end is reached.
RECURSIVE FindIndexFrom(_, _, _)
FindIndexFrom(table, x, i) ==
    IF i >= Len(table) THEN -1
    ELSE IF table[i + 1] = x THEN i
    ELSE FindIndexFrom(table, x, i + 1)

\* BASE64_TABLE.findIndex((v) => v === char)
base64CharToNum(char) == FindIndexFrom(BASE64_TABLE, char, 0)

\* BASE64_TABLE[index].
numToBase64Char(index) == BASE64_TABLE[index + 1]

\* numToColor with the red and the blue digit taken in the other order.
numToColorBlueFirst(code) ==
    LET rCode == JsMod(code, R_CHANNEL_PARTITION)
        code1 == FloorDiv(code, R_CHANNEL_PARTITION)
        gCode == JsMod(code1, G_CHANNEL_PARTITION)
        code2 == FloorDiv(code1, G_CHANNEL_PARTITION)
        bCode == JsMod(code2, B_CHANNEL_PARTITION)
    IN  << rCode * (255 \div (R_CHANNEL_PARTITION - 1)),
           gCode * (255 \div (G_CHANNEL_PARTITION - 1)),
           bCode * (255 \div (B_CHANNEL_PARTITION - 1)) >>

numToColor(code) ==
    LET bCode == JsMod(code, B_CHANNEL_PARTITION)
        code1 == FloorDiv(code, B_CHANNEL_PARTITION)
        gCode == JsMod(code1, G_CHANNEL_PARTITION)
        code2 == FloorDiv(code1, G_CHANNEL_PARTITION)
        rCode == JsMod(code2, R_CHANNEL_PARTITION)
    IN  << rCode * (255 \div (R_CHANNEL_PARTITION - 1)),
           gCode * (255 \div (G_CHANNEL_PARTITION - 1)),
           bCode * (255 \div (B_CHANNEL_PARTITION - 1)) >>

\* The loop of getNearIndex from index i on, with the best index ret and
\* its distance preDiff.  Distances are kept multiplied by (partition - 1),
\* which leaves every comparison as it is and keeps them integers:
\* |i * (max / (partition - 1)) - v| * (partition - 1) = |i * max - v * (partition - 1)|.
\* A NaN distance is never greater than preDiff, so the index is accepted
\* and preDiff becomes NaN, which nothing is greater than either.
RECURSIVE NearLoop(_, _, _, _, _, _)
NearLoop(i, ret, preDiff, v, partition, max) ==
    IF i >= partition THEN ret
    ELSE IF v = NaN \/ preDiff = NaN
         THEN NearLoop(i + 1, i, NaN, v, partition, max)
         ELSE LET diff == Abs(i * max - v * (partition - 1))
              IN  IF diff > preDiff THEN ret
                  ELSE NearLoop(i + 1, i, diff, v, partition, max)

\* The loop leaving at diff >= preDiff, and getNearIndex with that loop.
RECURSIVE NearLoopStrict(_, _, _, _, _, _)
NearLoopStrict(i, ret, preDiff, v, partition, max) ==
    IF i >= partition THEN ret
    ELSE LET diff == Abs(i * max - v * (partition - 1))
         IN  IF diff >= preDiff THEN ret
             ELSE NearLoopStrict(i + 1, i, diff, v, partition, max)

getNearIndexStrict(v, partition, max) ==
    NearLoopStrict(0, 0, max * (partition - 1), v, partition, max)

getNearIndex(v, partition, max) ==
    NearLoop(0, 0, max * (partition - 1), v, partition, max)

\* colorToNum reading the channels in the order blue, green, red.
colorToNumBlueFirst(color) ==
    LET ret0 == getNearIndex(color[3], B_CHANNEL_PARTITION, DEFAULT_MAX)
        ret1 == ret0 * G_CHANNEL_PARTITION
                  + getNearIndex(color[2], G_CHANNEL_PARTITION, DEFAULT_MAX)
        ret2 == ret1 * R_CHANNEL_PARTITION
                  + getNearIndex(color[1], R_CHANNEL_PARTITION, DEFAULT_MAX)
    IN  ret2

colorToNum(color) ==
    LET ret0 == getNearIndex(color[1], R_CHANNEL_PARTITION, DEFAULT_MAX)
        ret1 == ret0 * G_CHANNEL_PARTITION
                  + getNearIndex(color[2], G_CHANNEL_PARTITION, DEFAULT_MAX)
        ret2 == ret1 * B_CHANNEL_PARTITION
                  + getNearIndex(color[3], B_CHANNEL_PARTITION, DEFAULT_MAX)
    IN  ret2

\* str.split('').map((v) => numToColor(base64CharToNum(v)))
base64StringToColors(str) ==
    [i \in 1..Len(str) |-> numToColor(base64CharToNum(str[i]))]

\* colors.reduce((p, c) => p + numToBase64Char(colorToNum(c)), '')
colorsToBase64String(colors) ==
    [i \in 1..Len(colors) |-> numToBase64Char(colorToNum(colors[i]))]

(* ------------------------------------------------------------------ *)
(* Framing and drawing                                                *)
(* ------------------------------------------------------------------ *)

\* A cell of the block sequence that is not drawn (null in the source).
Null == <<>>

\* What the canvas holds where nothing was drawn: transparent black, of
\* which getPixelColor keeps the three colour channels.
Transparent == <<0, 0, 0>>

\* A pixel read outside the buffer.
UndefinedPixel == <<NaN, NaN, NaN>>

\* FrameBlocks filling the unused cells of the first row with white blocks.
FrameBlocksWhite(colors, blockCountX) ==
    LET length == Len(colors) + 0
        withHeader ==
            << numToColor(FloorDiv(blockCountX, 64)),
               numToColor(1),
               numToColor(length % 64),
               numToColor(FloorDiv(length, 64)) >> \o colors
    IN  IF Len(withHeader) < blockCountX - 1
        THEN withHeader
               \o [k \in 1..(blockCountX - Len(withHeader) - 1) |-> <<255, 255, 255>>]
               \o << numToColor(blockCountX % 64) >>
        ELSE Slice(withHeader, 0, blockCountX - 1)
               \o << numToColor(blockCountX % 64) >>
               \o SliceFrom(withHeader, blockCountX - 1)

\* The block sequence drawColorByteCodeBlock builds from the data colours:
\* four unshifts, then the footer at index blockCountX - 1 of the first row.
FrameBlocks(colors, blockCountX) ==
    LET length == Len(colors) + 0
        withHeader ==
            << numToColor(FloorDiv(blockCountX, 64)),
               numToColor(1),
               numToColor(length % 64),
               numToColor(FloorDiv(length, 64)) >> \o colors
    IN  IF Len(withHeader) < blockCountX - 1
        THEN withHeader
               \o [k \in 1..(blockCountX - Len(withHeader) - 1) |-> Null]
               \o << numToColor(blockCountX % 64) >>
        ELSE Slice(withHeader, 0, blockCountX - 1)
               \o << numToColor(blockCountX % 64) >>
               \o SliceFrom(withHeader, blockCountX - 1)

\* ctx.fillStyle = `rgb(r,g,b)`: the canvas keeps each channel in 0..255.
FillStyle(v) ==
    [c \in 1..3 |-> IF v[c] < 0 THEN 0 ELSE IF v[c] > 255 THEN 255 ELSE v[c]]

\* The image drawn from a block sequence, block by block.  The image is
\* kept as its grid of blocks: blockCountX blocks a row, blockCountY rows,
\* cells[i + 1] the colour of block i, row 0 being the bottom row.  Blocks
\* are taken to be wide enough for the one-pixel overlap of fillRect not to
\* reach a block's centre.
DrawImage(blocks, blockCountX) ==
    LET blockCountY == CeilDiv(Len(blocks), blockCountX)
    IN  [ blockCountX |-> blockCountX,
          blockCountY |-> blockCountY,
          cells |-> [i \in 1..(blockCountX * blockCountY) |->
                        IF i > Len(blocks) THEN Transparent
                        ELSE IF blocks[i] = Null THEN Transparent
                        ELSE FillStyle(blocks[i])] ]

drawColorByteCodeBlock(colorByteCodes, blockCountX) ==
    DrawImage(FrameBlocks(colorByteCodes, blockCountX), blockCountX)

(* ------------------------------------------------------------------ *)
(* Reading                                                            *)
(* ------------------------------------------------------------------ *)

\* The block of the image at column col and row row (from the bottom).
BlockAt(imageData, col, row) ==
    IF row >= imageData.blockCountY \/ col >= imageData.blockCountX
    THEN UndefinedPixel
    ELSE imageData.cells[row * imageData.blockCountX + col + 1]

\* imageData.getPixelColor at the centre of the reader's block (col, row),
\* the reader dividing the width into readCountX blocks.  Positions are
\* counted in half reader blocks from the left and from the bottom.  The
\* pixel index is x + y * width, so an x past the right edge reads on from
\* the left edge, one pixel line further down; a y above the image is
\* outside the buffer.  With a reader block width of Infinity
\* (readCountX = 0) every index is NaN or Infinity.
CentrePixel(imageData, readCountX, col, row) ==
    IF readCountX = 0 THEN UndefinedPixel
    ELSE LET xHalf == (2 * col + 1) % (2 * readCountX)
             yHalf == 2 * row + 1
             trueCol == (xHalf * imageData.blockCountX) \div (2 * readCountX)
             trueRow == (yHalf * imageData.blockCountX) \div (2 * readCountX)
         IN  BlockAt(imageData, trueCol, trueRow)

\* lNum * 64 + rNum from the bottom-left and the bottom-right pixel.
ReadBlockCountX(imageData) ==
    LET lNum == colorToNum(BlockAt(imageData, 0, 0))
        rNum == colorToNum(BlockAt(imageData, imageData.blockCountX - 1, 0))
    IN  lNum * 64 + rNum

ReadVersion(imageData) ==
    colorToNum(CentrePixel(imageData, ReadBlockCountX(imageData), 1, 0))

ReadBlockCount(imageData) ==
    LET blockCountX == ReadBlockCountX(imageData)
        blockCountData ==
            << colorToNum(CentrePixel(imageData, blockCountX, 2, 0)),
               colorToNum(CentrePixel(imageData, blockCountX, 3, 0)) >>
    IN  blockCountData[1] + blockCountData[2] * 64

\* The colours of blocks 0 .. blockCount + 4 in reading order.
ReadColors(imageData) ==
    LET blockCountX == ReadBlockCountX(imageData)
        blockCount == ReadBlockCount(imageData)
    IN  [k \in 1..(blockCount + 5) |->
            IF blockCountX = 0 THEN UndefinedPixel
            ELSE CentrePixel(imageData, blockCountX,
                             (k - 1) % blockCountX, (k - 1) \div blockCountX)]

\* readColorByteCode cutting the first row one block too late, which keeps
\* the footer among the data.
readColorByteCodeKeepsFooter(imageData) ==
    LET blockCountX == ReadBlockCountX(imageData)
        blockCount == ReadBlockCount(imageData)
        colors == ReadColors(imageData)
    IN  IF blockCount + 4 < blockCountX
        THEN Slice(colors, 4, 4 + blockCount)
        ELSE Slice(colors, 4, blockCountX) \o SliceFrom(colors, blockCountX)

readColorByteCode(imageData) ==
    LET blockCountX == ReadBlockCountX(imageData)
        blockCount == ReadBlockCount(imageData)
        colors == ReadColors(imageData)
    IN  IF blockCount + 4 < blockCountX
        THEN Slice(colors, 4, 4 + blockCount)
        ELSE Slice(colors, 4, blockCountX - 1) \o SliceFrom(colors, blockCountX)

(* ------------------------------------------------------------------ *)
(* Bounds of the model                                                *)
(* ------------------------------------------------------------------ *)

\* Longest text of which every spelling is tried.
MaxLen == 3
\* Largest number of blocks a row.
MaxBlockCountX == 8

\* The characters the short texts are spelled with: the first and the
\* second character of the table, the padding character, and one character
\* the table does not hold.
Chars == {"A", "B", "=", "-"}

RECURSIVE TextsOfLen(_, _)
TextsOfLen(cs, n) ==
    IF n = 0 THEN {<<>>}
    ELSE {Append(t, c) : t \in TextsOfLen(cs, n - 1), c \in cs}

TextsUpTo(cs, n) == UNION {TextsOfLen(cs, k) : k \in 0..n}

\* A text of n data characters that runs through the table.
PatternText(n) == [i \in 1..n |-> BASE64_TABLE[((i * 7) % 64) + 1]]

\* A length beyond MaxLen that takes several rows at every row width tried.
MidLens == {20}

\* The lengths around 64 * 64, the first length the two length blocks of
\* the header cannot count.
LongLens == {64 * 64 - 1, 64 * 64}

Texts == TextsUpTo(Chars, MaxLen) \cup {PatternText(n) : n \in MidLens}

LongTexts == {PatternText(n) : n \in LongLens}

\* Row widths beyond MaxBlockCountX, whose upper digit is not 0.
WideCounts == {64, 70}

BlockCounts == (1..MaxBlockCountX) \cup WideCounts

\* The symbols a foreign version block is given.
ForeignVersions == {0, 2}

(* ------------------------------------------------------------------ *)
(* State                                                              *)
(* ------------------------------------------------------------------ *)

VARIABLES
    \* dataToColorByteCode / colorByteCodeToData
    pc,              \* "start", "drawn", "read", "text"
    str,             \* byte64Str, the text to print
    blockCountX,     \* blocks a row, chosen by dataToColorByteCode
    colorByteCodes,  \* the block sequence after framing
    imageData,       \* the image handed to the reader
    foreign,         \* the image's version block was not drawn by this writer
    version,         \* readColorByteCode's locals
    blockCount,
    mainColors,      \* what readColorByteCode returns
    base64String,    \* colorsToBase64String(colors)
    \* the colour functions applied on their own
    qkind,           \* "level", "symbol", "pixel", "text"
    qpc,             \* "start", "color", "colors", "done"
    qv,              \* getNearIndex's v
    qmax,            \* getNearIndex's max
    qidx,            \* getNearIndex's result
    qcode,           \* numToColor's code
    qcolor,          \* a colour: numToColor's result, colorToNum's argument
    qnum,            \* colorToNum's result
    qtext,           \* base64StringToColors' str
    qcolors,         \* its result
    qtextOut,        \* colorsToBase64String's result
    \* base64ToObj
    ppc,             \* "try", "return", "throw"
    input,           \* base64ToObj's argument as it was passed
    v,               \* base64ToObj's v
    retry,
    decodable,       \* the texts window.atob and decode accept
    ret              \* the value returned, or the message thrown

mainVars == << pc, str, blockCountX, colorByteCodes, imageData, foreign,
               version, blockCount, mainColors, base64String >>

codecVars == << qkind, qpc, qv, qmax, qidx, qcode, qcolor, qnum, qtext,
                qcolors, qtextOut >>

padVars == << ppc, input, v, retry, decodable, ret >>

vars == << mainVars, codecVars, padVars >>

NoImage == [blockCountX |-> 0, blockCountY |-> 0, cells |-> <<>>]

MainInit ==
    /\ pc = "start"
    /\ \/ str \in Texts /\ blockCountX \in BlockCounts
       \/ str \in LongTexts /\ blockCountX \in WideCounts
    /\ colorByteCodes = <<>>
    /\ imageData = NoImage
    /\ foreign = FALSE
    /\ version = 0
    /\ blockCount = 0
    /\ mainColors = <<>>
    /\ base64String = <<>>

\* dataToColorByteCode: the text to colours, the colours framed and drawn.
DataToColorByteCode ==
    /\ pc = "start"
    /\ colorByteCodes' = FrameBlocks(base64StringToColors(str), blockCountX)
    /\ imageData' = drawColorByteCodeBlock(base64StringToColors(str), blockCountX)
    /\ pc' = "drawn"
    /\ UNCHANGED << str, blockCountX, foreign, version, blockCount,
                    mainColors, base64String >>
    /\ UNCHANGED << codecVars, padVars >>

\* The 1-based place of the version block in the sequence FrameBlocks
\* builds: the second header block, moved one on when the footer is put in
\* before it.
VersionCell(countX) == IF countX - 1 <= 1 THEN 3 ELSE 2

\* The reader is handed the image a writer of another version would have
\* drawn of the same text: the version block carries another symbol.
ForeignVersion ==
    /\ pc = "drawn"
    /\ ~foreign
    /\ \E s \in ForeignVersions :
          imageData' = [imageData EXCEPT
                           !.cells[VersionCell(blockCountX)] = numToColor(s)]
    /\ foreign' = TRUE
    /\ UNCHANGED << pc, str, blockCountX, colorByteCodes, version, blockCount,
                    mainColors, base64String >>
    /\ UNCHANGED << codecVars, padVars >>

\* colorByteCodeToData, first call: readColorByteCode(imageData).  No path
\* of it throws.
ReadColorByteCode ==
    /\ pc = "drawn"
    /\ version' = ReadVersion(imageData)
    /\ blockCount' = ReadBlockCount(imageData)
    /\ mainColors' = readColorByteCode(imageData)
    /\ pc' = "read"
    /\ UNCHANGED << str, blockCountX, colorByteCodes, imageData, foreign,
                    base64String >>
    /\ UNCHANGED << codecVars, padVars >>

\* colorByteCodeToData, second call: colorsToBase64String(colors).
ColorsToBase64String ==
    /\ pc = "read"
    /\ base64String' = colorsToBase64String(mainColors)
    /\ pc' = "text"
    /\ UNCHANGED << str, blockCountX, colorByteCodes, imageData, foreign,
                    version, blockCount, mainColors >>
    /\ UNCHANGED << codecVars, padVars >>

MainNext ==
    \/ DataToColorByteCode
    \/ ForeignVersion
    \/ ReadColorByteCode
    \/ ColorsToBase64String

(* ------------------------------------------------------------------ *)
(* The colour functions on their own                                  *)
(* ------------------------------------------------------------------ *)

\* Longest text over Chars given to base64StringToColors on its own.
MaxTextLen == 4

\* Every character of the table, and one it does not hold.
AllChars == {BASE64_TABLE[i] : i \in 1..Len(BASE64_TABLE)} \cup {"-"}

\* Every character alone, every pair of characters, and every text over
\* Chars up to MaxTextLen.
CodecTexts ==
    {<< c >> : c \in AllChars}
        \cup {<< c, d >> : c \in AllChars, d \in AllChars}
        \cup TextsUpTo(Chars, MaxTextLen)

\* Channel values at and next to the levels and the midpoints between them.
ChannelSamples == {0, 1, 42, 43, 84, 85, 86, 127, 128, 170, 212, 213, 254, 255}

\* getNearIndex's max: the default, and its double, under which the levels
\* 0, 170, 340, 510 have integers halfway between them.
Maxes == {DEFAULT_MAX, 2 * DEFAULT_MAX}

CodecIdle ==
    /\ qkind = "none" /\ qpc = "done"
    /\ qv = 0 /\ qmax = DEFAULT_MAX /\ qidx = 0
    /\ qcode = 0 /\ qcolor = Transparent /\ qnum = 0
    /\ qtext = <<>> /\ qcolors = <<>> /\ qtextOut = <<>>

CodecInit ==
    /\ qpc = "start"
    /\ qidx = 0 /\ qnum = 0 /\ qcolors = <<>> /\ qtextOut = <<>>
    /\ \/ /\ qkind = "level"
          /\ qmax \in Maxes
          /\ qv \in 0..qmax
          /\ qcode = 0 /\ qcolor = Transparent /\ qtext = <<>>
       \/ /\ qkind = "symbol"
          /\ qcode \in 0..63
          /\ qv = 0 /\ qmax = DEFAULT_MAX /\ qcolor = Transparent /\ qtext = <<>>
       \/ /\ qkind = "pixel"
          /\ qcolor \in ChannelSamples \X ChannelSamples \X ChannelSamples
          /\ qv = 0 /\ qmax = DEFAULT_MAX /\ qcode = 0 /\ qtext = <<>>
       \/ /\ qkind = "text"
          /\ qtext \in CodecTexts
          /\ qv = 0 /\ qmax = DEFAULT_MAX /\ qcode = 0 /\ qcolor = Transparent

GetNearIndex ==
    /\ qkind = "level" /\ qpc = "start"
    /\ qidx' = getNearIndex(qv, R_CHANNEL_PARTITION, qmax)
    /\ qpc' = "done"
    /\ UNCHANGED << qkind, qv, qmax, qcode, qcolor, qnum, qtext, qcolors, qtextOut >>
    /\ UNCHANGED << mainVars, padVars >>

NumToColor ==
    /\ qkind = "symbol" /\ qpc = "start"
    /\ qcolor' = numToColor(qcode)
    /\ qpc' = "color"
    /\ UNCHANGED << qkind, qv, qmax, qidx, qcode, qnum, qtext, qcolors, qtextOut >>
    /\ UNCHANGED << mainVars, padVars >>

ColorToNum ==
    /\ \/ qkind = "symbol" /\ qpc = "color"
       \/ qkind = "pixel" /\ qpc = "start"
    /\ qnum' = colorToNum(qcolor)
    /\ qpc' = "done"
    /\ UNCHANGED << qkind, qv, qmax, qidx, qcode, qcolor, qtext, qcolors, qtextOut >>
    /\ UNCHANGED << mainVars, padVars >>

Base64StringToColors ==
    /\ qkind = "text" /\ qpc = "start"
    /\ qcolors' = base64StringToColors(qtext)
    /\ qpc' = "colors"
    /\ UNCHANGED << qkind, qv, qmax, qidx, qcode, qcolor, qnum, qtext, qtextOut >>
    /\ UNCHANGED << mainVars, padVars >>

ColorsBackToBase64String ==
    /\ qkind = "text" /\ qpc = "colors"
    /\ qtextOut' = colorsToBase64String(qcolors)
    /\ qpc' = "done"
    /\ UNCHANGED << qkind, qv, qmax, qidx, qcode, qcolor, qnum, qtext, qcolors >>
    /\ UNCHANGED << mainVars, padVars >>

CodecNext ==
    \/ GetNearIndex
    \/ NumToColor
    \/ ColorToNum
    \/ Base64StringToColors
    \/ ColorsBackToBase64String

(* ------------------------------------------------------------------ *)
(* base64ToObj                                                        *)
(* ------------------------------------------------------------------ *)

\* Longest argument of base64ToObj.
MaxPadLen == 4

PadChars == {"A", "B", "="}

PadTexts == TextsUpTo(PadChars, MaxPadLen)

\* What a function that ends without a return statement returns.
Undefined == << "undefined" >>

CouldntFind == << "Couldnt Find ColorByteCode." >>

\* window.atob(v) and decode(...) both succeed.  Which texts they accept is
\* theirs to say; the value decoded stands as the text it was decoded from.
Decodes(t) == t \in decodable
Decoded(t) == t

\* new Array(n).fill('=').reduce((p, c) => p + c, '')
Padding(n) == [k \in 1..n |-> "="]

\* The character looked at being the last one at every retry.
RetryCharLast(t, n) == Slice(SliceFrom(t, -1), 0, 1)

\* v.slice(-(retry + 1)).slice(0, 1)
RetryChar(t, n) == Slice(SliceFrom(t, -(n + 1)), 0, 1)

\* v.slice(0, v.length - retry - 1) + '=' * (retry + 1)
Repadded(t, n) == Slice(t, 0, Len(t) - n - 1) \o Padding(n + 1)

PadIdle ==
    /\ ppc = "idle" /\ input = <<>> /\ v = <<>> /\ retry = 0
    /\ decodable = {} /\ ret = <<>>

PadInit ==
    /\ ppc = "try"
    /\ input \in PadTexts
    /\ v = input
    /\ retry = 0
    /\ decodable \in {{}} \cup {{t} : t \in PadTexts}
    /\ ret = <<>>

\* One turn of the loop whose try block returns.
TryReturns ==
    /\ ppc = "try" /\ retry < 4
    /\ Decodes(v)
    /\ ret' = Decoded(v)
    /\ ppc' = "return"
    /\ UNCHANGED << input, v, retry, decodable >>
    /\ UNCHANGED << mainVars, codecVars >>

\* One turn whose catch block throws.
CatchThrows ==
    /\ ppc = "try" /\ retry < 4
    /\ ~Decodes(v)
    /\ (RetryChar(v, retry) # << "A" >>) \/ (retry > 4)
    /\ ret' = CouldntFind
    /\ ppc' = "throw"
    /\ UNCHANGED << input, v, retry, decodable >>
    /\ UNCHANGED << mainVars, codecVars >>

\* One turn whose catch block rewrites v and counts the retry.
CatchRetries ==
    /\ ppc = "try" /\ retry < 4
    /\ ~Decodes(v)
    /\ RetryChar(v, retry) = << "A" >>
    /\ ~(retry > 4)
    /\ v' = Repadded(v, retry)
    /\ retry' = retry + 1
    /\ UNCHANGED << ppc, input, decodable, ret >>
    /\ UNCHANGED << mainVars, codecVars >>

\* while (retry < 4) is over and the function's body ends.
LoopEnds ==
    /\ ppc = "try" /\ ~(retry < 4)
    /\ ret' = Undefined
    /\ ppc' = "return"
    /\ UNCHANGED << input, v, retry, decodable >>
    /\ UNCHANGED << mainVars, codecVars >>

PadNext ==
    \/ TryReturns
    \/ CatchThrows
    \/ CatchRetries
    \/ LoopEnds

(* ------------------------------------------------------------------ *)
(* Specifications                                                     *)
(* ------------------------------------------------------------------ *)

MainIdle ==
    /\ pc = "idle" /\ str = <<>> /\ blockCountX = 1 /\ colorByteCodes = <<>>
    /\ imageData = NoImage /\ foreign = FALSE /\ version = 0
    /\ blockCount = 0 /\ mainColors = <<>> /\ base64String = <<>>

\* A text is printed and read back.
Init == MainInit /\ CodecIdle /\ PadIdle
Next == MainNext
Spec == Init /\ [][Next]_vars

\* The colour functions, each applied to one input.
InitCodec == MainIdle /\ CodecInit /\ PadIdle
SpecCodec == InitCodec /\ [][CodecNext]_vars

\* base64ToObj on one text.
InitPad == MainIdle /\ CodecIdle /\ PadInit
SpecPad == InitPad /\ [][PadNext]_vars

(* ------------------------------------------------------------------ *)
(* What the properties are stated with                                *)
(* ------------------------------------------------------------------ *)

\* The colour of symbol s in 0..63: the base-4 digits r, g, b of
\* s = r * 16 + g * 4 + b, each digit d at level d * 85.
SymbolPixel(s) == << 85 * (s \div 16), 85 * ((s \div 4) % 4), 85 * (s % 4) >>

\* The 64 data characters: the table without its last entry.
DataChars == {BASE64_TABLE[i] : i \in 1..64}

\* The 0-based place of a data character in the table.
SymbolOf(c) == (CHOOSE i \in 1..64 : BASE64_TABLE[i] = c) - 1

(* ------------------------------------------------------------------ *)
(* Properties of the colour functions (SpecCodec)                     *)
(* ------------------------------------------------------------------ *)

\* C1: every symbol s in 0..63 is mapped by numToColor to the colour of its
\* base-4 digits at levels 0, 85, 170, 255, and colorToNum of that colour
\* is s again.
C1_SymbolRoundTrip ==
    qkind = "symbol" =>
        /\ qpc \in {"color", "done"} => qcolor = SymbolPixel(qcode)
        /\ qpc = "done" => qnum = qcode

\* The last symbol has been mapped to white and read back as 63.
C1_Witness ==
    /\ qkind = "symbol" /\ qpc = "done"
    /\ qcode = 63 /\ qcolor = <<255, 255, 255>> /\ qnum = 63

\* The distance of level j from v, times 3, under the maximum max.
LevelDistance(j, val, max) == Abs(j * max - val * 3)

\* C8: getNearIndex(v, 4) returns an index in 0..3 whose level is at the
\* smallest distance from v among the four levels, and the higher index
\* where two levels are equally near; colorToNum of any colour with
\* channels in 0..255 is in 0..63 and is made of the three nearest levels.
\* Integers are never halfway between the levels 0, 85, 170, 255, so the
\* scan is also run with max = 510, where 85, 255 and 425 are halfway.
C8_NearestLevel ==
    /\ (qkind = "level" /\ qpc = "done") =>
          /\ qidx \in 0..3
          /\ \A j \in 0..3 :
                /\ LevelDistance(qidx, qv, qmax) <= LevelDistance(j, qv, qmax)
                /\ LevelDistance(qidx, qv, qmax) = LevelDistance(j, qv, qmax)
                      => j <= qidx
    /\ (qkind = "pixel" /\ qpc = "done") =>
          /\ qnum \in 0..63
          /\ \A c \in 1..3, j \in 0..3 :
                LET digit == (qnum \div (4 ^ (3 - c))) % 4
                IN  LevelDistance(digit, qcolor[c], DEFAULT_MAX)
                        <= LevelDistance(j, qcolor[c], DEFAULT_MAX)

\* A value halfway between two levels has been given the higher index.
C8_Witness ==
    /\ qkind = "level" /\ qpc = "done"
    /\ qmax = 510 /\ qv = 85 /\ qidx = 1

\* C6: base64StringToColors fails on a text that holds a character outside
\* the alphabet and gives no colour for it.  Stated for characters the
\* table does not hold at all ('=' is in the table, at index 64).
C6_UnknownSymbolRejected ==
    (qkind = "text" /\ \E i \in 1..Len(qtext) :
                          qtext[i] \notin DataChars \cup {"="})
        => qpc = "start"

\* C10: '=' gets the colour (0,0,0) of 'A', colorsToBase64String never
\* gives '=', and a text over the data characters and '=' comes back with
\* every '=' replaced by 'A', so unchanged when it holds no '='.
C10_PaddingReadsAsA ==
    (qkind = "text" /\ \A i \in 1..Len(qtext) : qtext[i] \in DataChars \cup {"="})
        => /\ qpc \in {"colors", "done"} =>
                /\ Len(qcolors) = Len(qtext)
                /\ \A i \in 1..Len(qtext) :
                      qcolors[i] = IF qtext[i] = "=" THEN SymbolPixel(0)
                                   ELSE SymbolPixel(SymbolOf(qtext[i]))
           /\ qpc = "done" =>
                /\ Len(qtextOut) = Len(qtext)
                /\ \A i \in 1..Len(qtext) :
                      qtextOut[i] = IF qtext[i] = "=" THEN "A" ELSE qtext[i]

\* A text with a padding character has come back with 'A' in its place.
C10_Witness ==
    /\ qkind = "text" /\ qpc = "done"
    /\ qtext = << "/", "=" >>
    /\ qtextOut = << "/", "A" >>

(* ------------------------------------------------------------------ *)
(* Properties of printing and reading (Spec)                          *)
(* ------------------------------------------------------------------ *)

\* The data colours of the text that was printed, and the k-th of them.
DataColors == base64StringToColors(str)
DataColor(k) == numToColor(base64CharToNum(str[k]))

\* Block i (0-based) of the framed sequence.
Block(i) == colorByteCodes[i + 1]

\* The layout of the framed sequence for a row of countX blocks: the four
\* header blocks at 0..3, the footer at countX - 1, undrawn cells at
\* 4 + L .. countX - 2, every other cell a data block in the order of the
\* data.  A header block holds the colour of its value's low six bits.
FrameLayout(countX) ==
    LET L == Len(str)
        n == Len(colorByteCodes)
    IN  /\ n = Max(countX, L + 5)
        /\ Block(0) = SymbolPixel((countX \div 64) % 64)
        /\ Block(1) = SymbolPixel(1)
        /\ Block(2) = SymbolPixel(L % 64)
        /\ Block(3) = SymbolPixel((L \div 64) % 64)
        /\ Block(countX - 1) = SymbolPixel(countX % 64)
        /\ \A i \in 4..(n - 1) :
              i # countX - 1 =>
                 IF 4 + L <= i /\ i <= countX - 2
                 THEN Block(i) = Null
                 ELSE LET k == IF i < countX - 1 THEN i - 3 ELSE i - 4
                      IN  /\ k \in 1..L
                          /\ Block(i) = DataColor(k)
                          /\ Block(i) # Null

\* C7 as stated: the layout holds for every row width from 1 on.
C7_FrameLayoutEveryWidth ==
    pc # "start" => FrameLayout(blockCountX)

\* C7: for every row width of at least 5 blocks the framed sequence has
\* the header blocks for floor(blockCountX / 64), 1, L mod 64 and
\* floor(L / 64) at 0..3, the footer for blockCountX mod 64 at
\* blockCountX - 1, null cells exactly at 4 + L .. blockCountX - 2, and the
\* data blocks in their order everywhere else.
C7_FrameLayout ==
    (pc # "start" /\ blockCountX >= 5) => FrameLayout(blockCountX)

\* A short text was framed with undrawn cells between it and the footer.
C7_Witness ==
    /\ pc = "drawn" /\ blockCountX = 8 /\ Len(str) = 2
    /\ Block(6) = Null /\ Block(5) # Null /\ Block(7) = SymbolPixel(8)

\* C2: for a row of 5 or more blocks and a text of at most 4095
\* characters, what readColorByteCode returns from the drawn image is the
\* data colour sequence, in order: as drawn, and so the data themselves
\* when their channels are in 0..255.
C2_FramingRoundTrip ==
    (pc \in {"read", "text"} /\ blockCountX >= 5 /\ Len(str) <= 64 * 64 - 1)
        => /\ Len(mainColors) = Len(str)
           /\ \A i \in 1..Len(str) : mainColors[i] = FillStyle(DataColor(i))
           /\ (\A i \in 1..Len(str) : str[i] \in DataChars \cup {"="})
                 => mainColors = DataColors

\* A text that fills the first row up to the footer, where the writer
\* takes its second branch and the reader its first, was read back.
C2_Witness ==
    /\ pc = "read" /\ ~foreign
    /\ Len(str) + 4 = blockCountX - 1
    /\ str = << "B", "A", "B" >>
    /\ mainColors = << <<0, 0, 85>>, <<0, 0, 0>>, <<0, 0, 85>> >>

\* C3: an image whose version block reads as another symbol than 1 is not
\* decoded: reading it fails, and no colours are returned.  Stated for rows
\* of 5 or more blocks, where column 1 holds the version block.
C3_ForeignVersionRejected ==
    (pc \in {"read", "text"} /\ blockCountX >= 5) => version = 1

\* C9: the length the reader makes of the two length blocks is the number
\* of data colours the writer was given, for every length.
C9_LengthHeaderFaithful ==
    (pc \in {"read", "text"} /\ blockCountX >= 5) => blockCount = Len(str)

(* ------------------------------------------------------------------ *)
(* Properties of base64ToObj (SpecPad)                                *)
(* ------------------------------------------------------------------ *)

\* The argument is t with its last p characters, all '=', replaced by 'A',
\* and t is the one text that decodes.
DroppedPadding(t, p) ==
    /\ decodable = {t}
    /\ Len(t) >= p
    /\ Len(input) = Len(t)
    /\ \A i \in 1..Len(t) :
          IF i > Len(t) - p
          THEN t[i] = "=" /\ input[i] = "A"
          ELSE input[i] = t[i]

\* C4: with the last p (1 or 2) padding characters of the only decodable
\* text t replaced by 'A', base64ToObj does not throw, holds at retry k the
\* argument with its last k characters replaced by '=', and returns the
\* value decoded from t at retry p.
C4_PaddingRecovered ==
    \A p \in {1, 2} : \A t \in decodable :
        DroppedPadding(t, p) =>
            /\ ppc # "throw"
            /\ retry <= p
            /\ v = Slice(input, 0, Len(input) - retry) \o Padding(retry)
            /\ ppc = "try" => ret = <<>>
            /\ ppc = "return" => (ret = Decoded(t) /\ retry = p)
            /\ (ppc = "try" /\ retry = p) => Decodes(v)

\* Two dropped padding characters were put back at the second retry.
C4_Witness ==
    /\ ppc = "return" /\ retry = 2
    /\ input = << "B", "B", "A", "A" >>
    /\ decodable = {<< "B", "B", "=", "=" >>}
    /\ ret = Decoded(<< "B", "B", "=", "=" >>)

\* C5: base64ToObj returns the value of an attempt that decoded, or throws
\* 'Couldnt Find ColorByteCode.'; it does not return without a value.
C5_NeverEndsSilently ==
    /\ ppc = "return" => (ret # Undefined /\ \E t \in decodable : ret = Decoded(t))
    /\ ppc = "throw" => ret = CouldntFind

====
